---- MODULE Spec2Model ----
(***************************************************************************)
(* The in-memory item store (InMemoryItemsRepository) and the controller   *)
(* layer in front of it (ItemsController), as a state machine; further     *)
(* down, HealthController, the middleware of App around the handlers, and  *)
(* several requests in flight at once.                                     *)
(*                                                                         *)
(* JavaScript values are records [type, s, n]; an object property that may *)
(* be missing is an option: <<>> when the key is absent, <<v>> when the    *)
(* key is present with value v (v may be Undef: a present key holding      *)
(* undefined).  Timestamps are readings of an integer clock `now`; an      *)
(* optional timestamp is <<>> or <<t>>.  A path segment is a sequence of   *)
(* one-character strings, a character that a string here cannot hold being *)
(* written by its code point ("U+00A0").                                   *)
(***************************************************************************)
EXTENDS Integers, Sequences, FiniteSets, TLC

VARIABLES
    items,        \* InMemoryItemsRepository.items
    nextId,       \* InMemoryItemsRepository.nextId
    now,          \* the clock read by new Date()
    call,         \* the last repository call and what it returned
    req,          \* the last HTTP request handled by the controller
    res,          \* the response sent for it
    lastCreated,  \* history: id returned by the last create since start/reset, 0 if none
    removedEver,  \* history: ids for which remove has returned true since construction
    removedSinceReset, \* history: the same, since construction or the last reset
    updatedSince, \* history: ids of the stored items on which an update has succeeded
                  \* since they were created (seed items: since the last reset)
    thrown,       \* the message of the error the repository threw in the last request, "" if none
    steps,        \* history: number of operations (repository calls, requests) so far
    requestCount, \* HealthController.requestCount
    served,       \* history: the paths HealthController has handled, in order
    uptime,       \* the last reading of process.uptime(), 0 when the process starts
    exchanges,    \* App: the requests received whose response has not finished yet
    completed,    \* App history: the requests whose response has finished, in order
    recorded,     \* App: the calls of MetricsService.recordRequest, in order
    inflight      \* the requests received and not yet answered, when several are in flight

\* the store, the controller in front of it and the clock
storeVars == <<items, nextId, now, call, req, res, lastCreated, removedEver,
               removedSinceReset, updatedSince, thrown, steps>>

\* HealthController, the middleware of App and the requests in flight
appVars == <<requestCount, served, uptime, exchanges, completed, recorded, inflight>>

vars == <<items, nextId, now, call, req, res, lastCreated, removedEver,
          removedSinceReset, updatedSince, thrown, steps,
          requestCount, served, uptime, exchanges, completed, recorded, inflight>>

(***************************************************************************)
(* Bounds of the model.                                                    *)
(***************************************************************************)
MaxTime == 1      \* the clock ticks at most this many times
MaxNextId == 6    \* create is explored while nextId is below this
MaxSteps == 4     \* repository calls in one behaviour of the repository alone
MaxRequests == 3  \* HTTP requests in one behaviour of the controller
MaxFaultyRequests == 2 \* the same, when the repository may throw
MaxHealthRequests == 4 \* requests in one behaviour of HealthController
MaxAppRequests == 2 \* requests in one behaviour of App with its middleware
MaxInFlight == 2  \* requests received in one behaviour with requests in flight
MaxElapsed == 2   \* process.uptime() grows by at most this much between two readings

(***************************************************************************)
(* JavaScript values.                                                      *)
(***************************************************************************)
Undef == [type |-> "undefined", s |-> "", n |-> 0]
Str(x) == [type |-> "string", s |-> x, n |-> 0]
Num(k) == [type |-> "number", s |-> "", n |-> k]

\* typeof v
TypeOf(v) == v.type

\* ToBoolean(v): what `!v`, `v && ...` and `v || ...` test
Truthy(v) ==
    CASE v.type = "string" -> v.s # ""
      [] v.type = "number" -> v.n # 0
      [] OTHER -> FALSE

\* text value, non-empty text value
IsText(v) == v.type = "string"
IsNonEmptyText(v) == v.type = "string" /\ v.s # ""

(***************************************************************************)
(* The repository.                                                         *)
(***************************************************************************)
InitialNextId == 4

\* getInitialData(): one new Date() per seed item, reading t1, t2, t3
getInitialData(t1, t2, t3) ==
    << [id |-> 1, name |-> Str("Item 1"), description |-> Str("First item"),
        createdAt |-> t1, updatedAt |-> <<>>],
       [id |-> 2, name |-> Str("Item 2"), description |-> Str("Second item"),
        createdAt |-> t2, updatedAt |-> <<>>],
       [id |-> 3, name |-> Str("Item 3"), description |-> Str("Third item"),
        createdAt |-> t3, updatedAt |-> <<>>] >>

\* data.k of an object whose key k may be absent
Prop(opt) == IF opt = <<>> THEN Undef ELSE opt[1]

\* the object {} as CreateItemData / UpdateItemData
EmptyData == [id |-> <<>>, name |-> <<>>, description |-> <<>>, createdAt |-> <<>>]

\* this.items.findIndex(item => item.id === id), 1-based; 0 stands for -1
findIndex(seq, id) ==
    IF \E i \in 1..Len(seq) : seq[i].id = id
    THEN CHOOSE i \in 1..Len(seq) :
            /\ seq[i].id = id
            /\ \A j \in 1..(i - 1) : seq[j].id # id
    ELSE 0

\* a create that derived the id from the number of items
NewItemByLength(id, data, t) ==
    [id |-> Len(items) + 1,
     name |-> Prop(data.name),
     description |-> IF Truthy(Prop(data.description))
                     THEN Prop(data.description) ELSE Str(""),
     createdAt |-> t,
     updatedAt |-> <<>>]

\* a create that stored data.description as given, without the '' default
NewItemWithoutDefault(id, data, t) ==
    [id |-> id,
     name |-> Prop(data.name),
     description |-> Prop(data.description),
     createdAt |-> t,
     updatedAt |-> <<>>]

\* a create that stamped updatedAt as well
NewItemStamped(id, data, t) ==
    [id |-> id,
     name |-> Prop(data.name),
     description |-> IF Truthy(Prop(data.description))
                     THEN Prop(data.description) ELSE Str(""),
     createdAt |-> t,
     updatedAt |-> <<t>>]

\* the object literal built by create
NewItem(id, data, t) ==
    [id |-> id,
     name |-> Prop(data.name),
     description |-> IF Truthy(Prop(data.description))
                     THEN Prop(data.description) ELSE Str(""),
     createdAt |-> t,
     updatedAt |-> <<>>]

\* a merge that assigned data.name and data.description whether or not the
\* keys are there
SpreadDataAssignAll(item, data) ==
    [id |-> IF data.id = <<>> THEN item.id ELSE data.id[1],
     name |-> Prop(data.name),
     description |-> Prop(data.description),
     createdAt |-> IF data.createdAt = <<>> THEN item.createdAt
                   ELSE data.createdAt[1],
     updatedAt |-> item.updatedAt]

\* { ...item, ...data }: every own key of data overwrites item's
SpreadData(item, data) ==
    [id |-> IF data.id = <<>> THEN item.id ELSE data.id[1],
     name |-> IF data.name = <<>> THEN item.name ELSE data.name[1],
     description |-> IF data.description = <<>> THEN item.description
                     ELSE data.description[1],
     createdAt |-> IF data.createdAt = <<>> THEN item.createdAt
                   ELSE data.createdAt[1],
     updatedAt |-> item.updatedAt]

\* { ...item, ...data, id: item.id, updatedAt: new Date().toISOString() }
MergedItem(item, data, t) ==
    [SpreadData(item, data) EXCEPT !.id = item.id, !.updatedAt = <<t>>]

\* a splice that took the position after the one found
SpliceOffByOne(seq, index) ==
    LET k == IF index < Len(seq) THEN index + 1 ELSE index IN
    [i \in 1..(Len(seq) - 1) |-> IF i < k THEN seq[i] ELSE seq[i + 1]]

\* this.items.splice(index, 1), index 1-based
Splice(seq, index) ==
    [i \in 1..(Len(seq) - 1) |-> IF i < index THEN seq[i] ELSE seq[i + 1]]

\* what the last repository call was: op, its id argument (0 when it takes
\* none), its data argument, whether it found / produced an item, and the
\* item it returned
NoCall == [op |-> "none", id |-> 0, data |-> EmptyData, ok |-> FALSE, item |-> <<>>]
CallRec(op, id, data, ok, item) ==
    [op |-> op, id |-> id, data |-> data, ok |-> ok, item |-> item]

NoReq == [method |-> "none", seg |-> <<>>, body |-> [name |-> Undef, description |-> Undef]]
NoRes == [status |-> 0, kind |-> "none", error |-> "", message |-> "", data |-> <<>>]

\* the state after `new InMemoryItemsRepository()`, the first reading of the
\* clock being 0; the clock may advance between the three readings
Init ==
    /\ \E t2 \in 0..MaxTime : \E t3 \in t2..MaxTime :
           /\ items = getInitialData(0, t2, t3)
           /\ now = t3
    /\ nextId = InitialNextId
    /\ call = NoCall
    /\ req = NoReq
    /\ res = NoRes
    /\ lastCreated = 0
    /\ removedEver = {}
    /\ removedSinceReset = {}
    /\ updatedSince = {}
    /\ thrown = ""
    /\ steps = 0
    /\ requestCount = 0
    /\ served = <<>>
    /\ uptime = 0
    /\ exchanges = <<>>
    /\ completed = <<>>
    /\ recorded = <<>>
    /\ inflight = <<>>

\* time passes between two operations; limit is the number of operations of
\* the behaviour
Tick(limit) ==
    /\ steps < limit
    /\ now < MaxTime
    /\ now' = now + 1
    /\ UNCHANGED <<items, nextId, call, req, res, lastCreated, removedEver,
                   removedSinceReset, updatedSince, thrown, steps>>

\* one more operation is performed
Step ==
    /\ steps < MaxSteps
    /\ steps' = steps + 1

(***************************************************************************)
(* Repository methods as state transformers: each gives the repository's   *)
(* fields and the call record after the method has run.                    *)
(***************************************************************************)
\* getAll(): returns this.items
RepoGetAll ==
    /\ call' = CallRec("getAll", 0, EmptyData, TRUE, <<>>)
    /\ UNCHANGED <<items, nextId, lastCreated, removedEver, removedSinceReset,
                   updatedSince>>

\* a getById that took the item it found out of the array
RepoGetByIdTakes(id) ==
    LET index == findIndex(items, id) IN
    /\ call' = CallRec("getById", id, EmptyData, index # 0,
                       IF index = 0 THEN <<>> ELSE <<items[index]>>)
    /\ items' = IF index = 0 THEN items ELSE Splice(items, index)
    /\ UNCHANGED <<nextId, lastCreated, removedEver, removedSinceReset,
                   updatedSince>>

\* getById(id): this.items.find(item => item.id === id)
RepoGetById(id) ==
    LET index == findIndex(items, id) IN
    /\ call' = CallRec("getById", id, EmptyData, index # 0,
                       IF index = 0 THEN <<>> ELSE <<items[index]>>)
    /\ UNCHANGED <<items, nextId, lastCreated, removedEver, removedSinceReset,
                   updatedSince>>

\* a create that read nextId without incrementing it
RepoCreateNoIncrement(data) ==
    LET newItem == NewItem(nextId, data, now) IN
    /\ nextId' = nextId
    /\ items' = Append(items, newItem)
    /\ call' = CallRec("create", 0, data, TRUE, <<newItem>>)
    /\ lastCreated' = newItem.id
    /\ UNCHANGED <<removedEver, removedSinceReset, updatedSince>>

\* a create that put the new item first (unshift instead of push)
RepoCreatePrepend(data) ==
    LET newItem == NewItem(nextId, data, now) IN
    /\ nextId' = nextId + 1
    /\ items' = <<newItem>> \o items
    /\ call' = CallRec("create", 0, data, TRUE, <<newItem>>)
    /\ lastCreated' = newItem.id
    /\ UNCHANGED <<removedEver, removedSinceReset, updatedSince>>

\* create(data)
RepoCreate(data) ==
    LET newItem == NewItem(nextId, data, now) IN
    /\ nextId' = nextId + 1
    /\ items' = Append(items, newItem)
    /\ call' = CallRec("create", 0, data, TRUE, <<newItem>>)
    /\ lastCreated' = newItem.id
    /\ UNCHANGED <<removedEver, removedSinceReset, updatedSince>>

\* update(id, data)
RepoUpdate(id, data) ==
    LET index == findIndex(items, id) IN
    IF index = 0
    THEN /\ call' = CallRec("update", id, data, FALSE, <<>>)
         /\ UNCHANGED <<items, nextId, lastCreated, removedEver, removedSinceReset,
                   updatedSince>>
    ELSE /\ items' = [items EXCEPT ![index] = MergedItem(items[index], data, now)]
         /\ call' = CallRec("update", id, data, TRUE, <<items'[index]>>)
         /\ updatedSince' = updatedSince \cup {id}
         /\ UNCHANGED <<nextId, lastCreated, removedEver, removedSinceReset>>

\* a remove without the `index === -1` return: splice(-1, 1) drops the last
\* item
RepoRemoveUnchecked(id) ==
    LET index == findIndex(items, id) IN
    /\ items' = IF index = 0 THEN SubSeq(items, 1, Len(items) - 1)
                 ELSE Splice(items, index)
    /\ call' = CallRec("remove", id, EmptyData, TRUE, <<>>)
    /\ removedEver' = removedEver \cup {id}
    /\ removedSinceReset' = removedSinceReset \cup {id}
    /\ updatedSince' = updatedSince \ {id}
    /\ UNCHANGED <<nextId, lastCreated>>

\* a remove that gave the id back to the counter
RepoRemoveReleasesId(id) ==
    LET index == findIndex(items, id) IN
    IF index = 0
    THEN /\ call' = CallRec("remove", id, EmptyData, FALSE, <<>>)
         /\ UNCHANGED <<items, nextId, lastCreated, removedEver, removedSinceReset,
                        updatedSince>>
    ELSE /\ items' = Splice(items, index)
         /\ nextId' = nextId - 1
         /\ call' = CallRec("remove", id, EmptyData, TRUE, <<>>)
         /\ removedEver' = removedEver \cup {id}
         /\ removedSinceReset' = removedSinceReset \cup {id}
         /\ updatedSince' = updatedSince \ {id}
         /\ UNCHANGED lastCreated

\* remove(id)
RepoRemove(id) ==
    LET index == findIndex(items, id) IN
    IF index = 0
    THEN /\ call' = CallRec("remove", id, EmptyData, FALSE, <<>>)
         /\ UNCHANGED <<items, nextId, lastCreated, removedEver, removedSinceReset,
                   updatedSince>>
    ELSE /\ items' = Splice(items, index)
         /\ call' = CallRec("remove", id, EmptyData, TRUE, <<>>)
         /\ removedEver' = removedEver \cup {id}
         /\ removedSinceReset' = removedSinceReset \cup {id}
         /\ updatedSince' = updatedSince \ {id}
         /\ UNCHANGED <<nextId, lastCreated>>

\* a reset that restored the counter but not the items
RepoResetKeepsItems ==
    /\ items' = items
    /\ now' = now
    /\ nextId' = InitialNextId
    /\ call' = CallRec("reset", 0, EmptyData, TRUE, <<>>)
    /\ lastCreated' = 0
    /\ removedSinceReset' = {}
    /\ updatedSince' = {}
    /\ UNCHANGED removedEver

\* a reset that restored the items but not the counter
RepoResetKeepsCounter ==
    /\ \E t2 \in now..MaxTime : \E t3 \in t2..MaxTime :
           /\ items' = getInitialData(now, t2, t3)
           /\ now' = t3
    /\ nextId' = nextId
    /\ call' = CallRec("reset", 0, EmptyData, TRUE, <<>>)
    /\ lastCreated' = 0
    /\ removedSinceReset' = {}
    /\ updatedSince' = {}
    /\ UNCHANGED removedEver

\* reset(): the clock may advance between the three readings of
\* getInitialData
RepoReset ==
    /\ \E t2 \in now..MaxTime : \E t3 \in t2..MaxTime :
           /\ items' = getInitialData(now, t2, t3)
           /\ now' = t3
    /\ nextId' = InitialNextId
    /\ call' = CallRec("reset", 0, EmptyData, TRUE, <<>>)
    /\ lastCreated' = 0
    /\ removedSinceReset' = {}
    /\ updatedSince' = {}
    /\ UNCHANGED removedEver

(***************************************************************************)
(* Direct use of the repository: the inputs.                               *)
(***************************************************************************)
\* ids passed to getById / update / remove: a seed item, the first created
\* item, an id no item ever has
IdArgs == {1, 4, 9}

\* payloads of create: {name}, {name, description}
CreateInputs ==
    {[EmptyData EXCEPT !.name = <<Str("X")>>, !.description = d] :
        d \in {<<>>, <<Str("D")>>}}

\* payloads of update: {}, {name}, {description}, {name, description}, a
\* payload that also carries an id, payloads that carry a createdAt
UpdateInputs ==
    { EmptyData,
      [EmptyData EXCEPT !.name = <<Str("Y")>>],
      [EmptyData EXCEPT !.description = <<Str("Z")>>],
      [EmptyData EXCEPT !.name = <<Str("Y")>>, !.description = <<Str("Z")>>],
      [EmptyData EXCEPT !.id = <<9>>, !.name = <<Str("Y")>>] }
    \cup {[EmptyData EXCEPT !.createdAt = <<t>>] : t \in 0..MaxTime}

GetAll == Step /\ RepoGetAll /\ UNCHANGED <<now, req, res, thrown>>
GetById == Step /\ \E id \in IdArgs : RepoGetById(id) /\ UNCHANGED <<now, req, res, thrown>>
Create ==
    /\ Step
    /\ nextId < MaxNextId
    /\ \E data \in CreateInputs : RepoCreate(data)
    /\ UNCHANGED <<now, req, res, thrown>>
Update ==
    /\ Step
    /\ \E id \in IdArgs, data \in UpdateInputs : RepoUpdate(id, data)
    /\ UNCHANGED <<now, req, res, thrown>>
Remove == Step /\ \E id \in IdArgs : RepoRemove(id) /\ UNCHANGED <<now, req, res, thrown>>
Reset == Step /\ RepoReset /\ UNCHANGED <<req, res, thrown>>

StoreTick == Tick(MaxSteps)

Next ==
    /\ \/ StoreTick
       \/ GetAll
       \/ GetById
       \/ Create
       \/ Update
       \/ Remove
       \/ Reset
    /\ UNCHANGED appVars

Spec == Init /\ [][Next]_vars

(***************************************************************************)
(* Properties of the repository, checked under Spec.                       *)
(***************************************************************************)
\* a step of the behaviour in which an operation ran (not a clock tick)
Operated == steps' = steps + 1

\* C1: in every reachable state of the store every item id is a positive
\* integer and no two items have the same id.
C1_IdsPositiveAndUnique ==
    \A i \in 1..Len(items) :
        /\ items[i].id \in Nat \ {0}
        /\ \A j \in 1..Len(items) : i # j => items[i].id # items[j].id

\* C1 witness: a create has just run in a store from which an item was removed.
C1_Witness ==
    /\ call.op = "create"
    /\ removedEver # {}
    /\ Len(items) >= 3

\* C2: the id returned by a create is 4 when it is the first create since
\* construction (or since the last reset), and otherwise exactly one more
\* than the id returned by the previous create, whatever update and remove
\* calls ran in between.
C2_CreateIdsIncreaseByOne ==
    [][(Operated /\ call'.op = "create") =>
          call'.item[1].id = IF lastCreated = 0 THEN 4 ELSE lastCreated + 1]_vars

\* C2 witness: a second create returned 5 after a successful remove.
C2_Witness ==
    /\ call.op = "create"
    /\ call.item[1].id = 5
    /\ removedSinceReset # {}

\* C3 as stated: a create never returns an id for which remove has returned
\* true earlier in the store's lifetime.
C3_NeverReusedInLifetime ==
    call.op = "create" => call.item[1].id \notin removedEver

\* C3 amended: a create never returns an id for which remove has returned
\* true since construction or since the last reset.
C3_NeverReusedSinceReset ==
    call.op = "create" => call.item[1].id \notin removedSinceReset

\* C3 witness: a create has run after the removal of a created item.
C3_Witness ==
    /\ call.op = "create"
    /\ \E id \in removedSinceReset : id >= 4

\* C4: a successful update leaves the id and the createdAt of the item as
\* they were, whatever the payload, and returns the item as stored.
C4_UpdateKeepsIdAndCreatedAt ==
    [][(Operated /\ call'.op = "update" /\ call'.ok) =>
          LET i == findIndex(items, call'.id) IN
          /\ items'[i].id = items[i].id
          /\ items'[i].createdAt = items[i].createdAt
          /\ call'.item = <<items'[i]>>]_vars

\* C5: a successful update changes name only if the payload has the key
\* name, description only if the payload has the key description, and
\* stamps updatedAt with the current time, also for the payload {}.
C5_UpdateChangesOnlyPresentFields ==
    [][(Operated /\ call'.op = "update" /\ call'.ok) =>
          LET i == findIndex(items, call'.id) IN
          /\ call'.data.name = <<>> => items'[i].name = items[i].name
          /\ call'.data.description = <<>> =>
                 items'[i].description = items[i].description
          /\ items'[i].updatedAt = <<now>>]_vars

\* C5 witness: update(1, {description: "Z"}) has run and item 1 still has its
\* seed name.
C5_Witness ==
    /\ call.op = "update" /\ call.ok /\ call.id = 1
    /\ call.data = [EmptyData EXCEPT !.description = <<Str("Z")>>]
    /\ call.item[1].name = Str("Item 1")
    /\ call.item[1].description = Str("Z")
    /\ call.item[1].updatedAt # <<>>

(***************************************************************************)
(* The controller: id parsing.                                             *)
(***************************************************************************)
Digits == {"0", "1", "2", "3", "4", "5", "6", "7", "8", "9"}
\* the characters parseInt skips before the sign and the digits (StrWhiteSpaceChar);
\* those a string of this module cannot hold are written by their code point
WhiteSpace ==
    {"\t", "\n", "\f", "\r", " ", "U+000B", "U+00A0", "U+1680",
     "U+2000", "U+2001", "U+2002", "U+2003", "U+2004", "U+2005", "U+2006",
     "U+2007", "U+2008", "U+2009", "U+200A", "U+2028", "U+2029", "U+202F",
     "U+205F", "U+3000", "U+FEFF"}

DigitValue(c) ==
    CASE c = "0" -> 0 [] c = "1" -> 1 [] c = "2" -> 2 [] c = "3" -> 3
      [] c = "4" -> 4 [] c = "5" -> 5 [] c = "6" -> 6 [] c = "7" -> 7
      [] c = "8" -> 8 [] c = "9" -> 9

\* parseInt step 1: leading white space is dropped
RECURSIVE TrimStart(_)
TrimStart(str) ==
    IF str # <<>> /\ Head(str) \in WhiteSpace THEN TrimStart(Tail(str)) ELSE str

\* parseInt: the longest prefix of str made of radix-10 digits
RECURSIVE DigitPrefix(_)
DigitPrefix(str) ==
    IF str # <<>> /\ Head(str) \in Digits
    THEN <<Head(str)>> \o DigitPrefix(Tail(str))
    ELSE <<>>

\* parseInt: the mathematical value of a digit string, most significant first
RECURSIVE DigitsToNumber(_, _)
DigitsToNumber(ds, acc) ==
    IF ds = <<>> THEN acc
    ELSE DigitsToNumber(Tail(ds), 10 * acc + DigitValue(Head(ds)))

NaN == [nan |-> TRUE, n |-> 0]
Number(k) == [nan |-> FALSE, n |-> k]

\* parseInt(str, 10)
parseInt(str) ==
    LET trimmed == TrimStart(str)
        signed == trimmed # <<>> /\ Head(trimmed) \in {"+", "-"}
        sign == IF trimmed # <<>> /\ Head(trimmed) = "-" THEN -1 ELSE 1
        rest == IF signed THEN Tail(trimmed) ELSE trimmed
        ds == DigitPrefix(rest)
    IN  IF ds = <<>> THEN NaN ELSE Number(sign * DigitsToNumber(ds, 0))

\* isNaN(x)
isNaN(x) == x.nan

(***************************************************************************)
(* The controller: responses (BaseController).                             *)
(***************************************************************************)
Response(status, kind, error, message, data) ==
    [status |-> status, kind |-> kind, error |-> error, message |-> message,
     data |-> data]

\* this.ok(res, items)
okList(list) == Response(200, "list", "", "", list)
\* this.ok(res, item)
okItem(item) == Response(200, "item", "", "", <<item>>)
\* this.ok(res, { message })
okMessage(message) == Response(200, "message", "", message, <<>>)
\* a created that answered with the default status
createdWithStatusOk(item) == Response(200, "item", "", "", <<item>>)

\* this.created(res, item)
created(item) == Response(201, "item", "", "", <<item>>)
\* a fail that answered 422 Unprocessable Entity
failUnprocessable(message) == Response(422, "error", message, "", <<>>)

\* this.fail(res, message)
fail(message) == Response(400, "error", message, "", <<>>)
\* this.notFound(res, message)
notFound(message) == Response(404, "error", message, "", <<>>)

(***************************************************************************)
(* The controller: validation.  Each gives the message of the failure, ""  *)
(* when the body passes.                                                   *)
(***************************************************************************)
\* ItemsController.create, the two checks before repository.create
ValidateCreate(name, description) ==
    IF ~Truthy(name) \/ TypeOf(name) # "string"
    THEN "Name is required and must be a string"
    ELSE IF Truthy(description) /\ TypeOf(description) # "string"
    THEN "Description must be a string"
    ELSE ""

\* ItemsController.update, the two checks before repository.update
ValidateUpdate(name, description) ==
    IF Truthy(name) /\ TypeOf(name) # "string"
    THEN "Name must be a string"
    ELSE IF Truthy(description) /\ TypeOf(description) # "string"
    THEN "Description must be a string"
    ELSE ""

\* the object literal { name, description } handed to the repository: both
\* keys are present, holding undefined when the body had no such key
DataOf(name, description) ==
    [EmptyData EXCEPT !.name = <<name>>, !.description = <<description>>]

(***************************************************************************)
(* The controller: handlers.                                               *)
(***************************************************************************)
NoBody == [name |-> Undef, description |-> Undef]
Request(method, seg, body) == [method |-> method, seg |-> seg, body |-> body]

\* a handler that had drawn the next id before it rejected the request
NoRepoCallConsumesId ==
    /\ call' = NoCall
    /\ nextId' = nextId + 1
    /\ UNCHANGED <<items, lastCreated, removedEver, removedSinceReset, updatedSince>>

\* the handler returns without calling the repository
NoRepoCall ==
    /\ call' = NoCall
    /\ UNCHANGED <<items, nextId, lastCreated, removedEver, removedSinceReset,
                   updatedSince>>

\* one more request reaches its handler
Arrive(r) ==
    /\ steps < MaxRequests
    /\ steps' = steps + 1
    /\ req' = r
    /\ UNCHANGED now

\* one more request is handled, the repository throwing nothing
Receive(r) ==
    /\ Arrive(r)
    /\ thrown' = ""

\* ItemsController.getAll
HandleGetAll ==
    /\ Receive(Request("GET", <<>>, NoBody))
    /\ RepoGetAll
    /\ res' = okList(items')

\* ItemsController.getById
HandleGetById(seg) ==
    LET id == parseInt(seg) IN
    /\ Receive(Request("GET", seg, NoBody))
    /\ IF isNaN(id)
       THEN NoRepoCall /\ res' = fail("Invalid ID format")
       ELSE /\ RepoGetById(id.n)
            /\ res' = IF call'.item = <<>> THEN notFound("Item not found")
                      ELSE okItem(call'.item[1])

\* ItemsController.create
HandleCreate(body) ==
    LET name == body.name
        description == body.description
        invalid == ValidateCreate(name, description)
    IN
    /\ Receive(Request("POST", <<>>, body))
    /\ IF invalid # ""
       THEN NoRepoCall /\ res' = fail(invalid)
       ELSE /\ nextId < MaxNextId
            /\ RepoCreate(DataOf(name, description))
            /\ res' = created(call'.item[1])

\* ItemsController.update
HandleUpdate(seg, body) ==
    LET id == parseInt(seg)
        name == body.name
        description == body.description
        invalid == ValidateUpdate(name, description)
    IN
    /\ Receive(Request("PUT", seg, body))
    /\ IF isNaN(id)
       THEN NoRepoCall /\ res' = fail("Invalid ID format")
       ELSE IF invalid # ""
       THEN NoRepoCall /\ res' = fail(invalid)
       ELSE /\ RepoUpdate(id.n, DataOf(name, description))
            /\ res' = IF call'.item = <<>> THEN notFound("Item not found")
                      ELSE okItem(call'.item[1])

\* ItemsController.delete
HandleDelete(seg) ==
    LET id == parseInt(seg) IN
    /\ Receive(Request("DELETE", seg, NoBody))
    /\ IF isNaN(id)
       THEN NoRepoCall /\ res' = fail("Invalid ID format")
       ELSE /\ RepoRemove(id.n)
            /\ res' = IF ~call'.ok THEN notFound("Item not found")
                      ELSE okMessage("Item deleted successfully")

(***************************************************************************)
(* Requests: the inputs.                                                   *)
(***************************************************************************)
\* the :id path segment: a seed item's id, the first created id, an id no
\* item has, a segment with no digit, digits followed by a letter, a digit
\* after a TAB (the segment %091, percent-decoded)
Segments ==
    { <<"1">>, <<"4">>, <<"9">>, <<"a", "b", "c">>, <<"1", "a">>, <<"\t", "1">> }

\* a field of a JSON body: omitted (read as undefined), the empty string, a
\* non-empty string, the number 0, a non-zero number
NameValues == {Undef, Str(""), Str("X"), Num(0), Num(7)}
DescriptionValues == {Undef, Str("Z"), Num(0), Num(7)}
\* req.body: every kind of name without a description, every kind of
\* description with a text name, a description alone, both fields non-text
Bodies ==
    {[name |-> name, description |-> Undef] : name \in NameValues}
    \cup {[name |-> Str("X"), description |-> description] :
             description \in DescriptionValues}
    \cup {[name |-> Undef, description |-> Str("Z")],
          [name |-> Num(7), description |-> Num(7)]}

GetAllRequest == HandleGetAll
GetByIdRequest == \E seg \in Segments : HandleGetById(seg)
CreateRequest == \E body \in Bodies : HandleCreate(body)
UpdateRequest == \E seg \in Segments, body \in Bodies : HandleUpdate(seg, body)
DeleteRequest == \E seg \in Segments : HandleDelete(seg)

HttpTick == Tick(MaxRequests)

NextHttp ==
    /\ \/ HttpTick
       \/ GetAllRequest
       \/ GetByIdRequest
       \/ CreateRequest
       \/ UpdateRequest
       \/ DeleteRequest
    /\ UNCHANGED appVars

SpecHttp == Init /\ [][NextHttp]_vars

(***************************************************************************)
(* Properties of the controller over the repository, checked under         *)
(* SpecHttp.                                                               *)
(***************************************************************************)
\* a JSON body has the field, with a value that is not text
PresentNonText(v) == v # Undef /\ ~IsText(v)

\* the segment is an optionally signed, non-empty run of decimal digits
IsBase10Integer(seg) ==
    LET ds == IF seg # <<>> /\ Head(seg) \in {"+", "-"} THEN Tail(seg) ELSE seg
    IN  ds # <<>> /\ \A i \in 1..Len(ds) : ds[i] \in Digits

\* C6: a PUT answered 200 leaves a field that its body omits (name,
\* description) at the value the stored item had before the request.
C6_PutKeepsOmittedFields ==
    [][(Operated /\ req'.method = "PUT" /\ res'.status = 200) =>
          LET i == findIndex(items, call'.id) IN
          /\ req'.body.name = Undef => items'[i].name = items[i].name
          /\ req'.body.description = Undef =>
                 items'[i].description = items[i].description]_vars

\* C7: after any sequence of requests every item in the store has a name
\* that is a non-empty text value and a description that is a text value.
C7_ItemsWellFormed ==
    \A i \in 1..Len(items) :
        /\ IsNonEmptyText(items[i].name)
        /\ IsText(items[i].description)

\* C8: a POST whose body has no name or a non-text name is answered 400 with
\* 'Name is required and must be a string'; a POST or PUT whose body has a
\* name that is not text or a description that is not text is answered 400;
\* in these cases the handler invokes no repository method.
C8_InvalidBodiesRejected ==
    /\ (req.method = "POST" /\ ~IsText(req.body.name)) =>
          /\ res.status = 400
          /\ res.error = "Name is required and must be a string"
          /\ call = NoCall
    /\ (/\ req.method \in {"POST", "PUT"}
        /\ PresentNonText(req.body.name) \/ PresentNonText(req.body.description)) =>
          /\ res.status = 400
          /\ call = NoCall

\* C9: a GET, PUT or DELETE whose :id segment is not a base-10 integer is
\* answered 400 'Invalid ID format' and the handler invokes no repository
\* method.
C9_NonIntegerIdRejected ==
    (/\ req.method \in {"GET", "PUT", "DELETE"}
     /\ req.seg # <<>>
     /\ ~IsBase10Integer(req.seg)) =>
        /\ res.status = 400
        /\ res.error = "Invalid ID format"
        /\ call = NoCall

\* C10: when a handler calls getById, update or remove with an id that no
\* item has, the repository reports not found (no item, not ok), the
\* response is 404 'Item not found', and the items, every field of them, and
\* the next-id counter are as before the request.
C10_NotFoundHasNoEffect ==
    [][(/\ Operated
        /\ call'.op \in {"getById", "update", "remove"}
        /\ \A i \in 1..Len(items) : items[i].id # call'.id) =>
          /\ ~call'.ok
          /\ call'.item = <<>>
          /\ res'.status = 404
          /\ res'.error = "Item not found"
          /\ items' = items
          /\ nextId' = nextId]_vars

\* C10 witness: a PUT with a valid body on the id of a deleted item has been
\* answered 404.
C10_Witness ==
    /\ req.method = "PUT"
    /\ call.op = "update" /\ ~call.ok
    /\ call.id \in removedEver
    /\ res.status = 404

(***************************************************************************)
(* The controller over a repository that can fail: ItemsController takes   *)
(* any ItemsRepository, and every handler runs its body in try / catch.    *)
(* A handler whose repository call throws has reached that call (the id    *)
(* parsed, the body passed validation); the failing call leaves the        *)
(* repository as it was.                                                   *)
(***************************************************************************)
\* messages of the errors a repository throws
Errors == {"Database error"}

\* a serverError that left the message out of the body
serverErrorWithoutMessage(error) ==
    Response(500, "error", "Internal server error", "", <<>>)

\* this.serverError(res, error): error.message goes into the body
serverError(error) ==
    Response(500, "error", "Internal server error", error, <<>>)

\* the repository method throws: nothing is returned, nothing is stored
RepoThrows(op, id, data, error) ==
    /\ call' = CallRec(op, id, data, FALSE, <<>>)
    /\ thrown' = error
    /\ UNCHANGED <<items, nextId, lastCreated, removedEver, removedSinceReset,
                   updatedSince>>

\* catch (error) { return this.serverError(res, error as Error); }
Catch == res' = serverError(thrown')

\* ItemsController.getAll, repository.getAll throwing
HandleGetAllThrowing(error) ==
    /\ Arrive(Request("GET", <<>>, NoBody))
    /\ RepoThrows("getAll", 0, EmptyData, error)
    /\ Catch

\* ItemsController.getById, repository.getById throwing
HandleGetByIdThrowing(seg, error) ==
    LET id == parseInt(seg) IN
    /\ ~isNaN(id)
    /\ Arrive(Request("GET", seg, NoBody))
    /\ RepoThrows("getById", id.n, EmptyData, error)
    /\ Catch

\* ItemsController.create, repository.create throwing
HandleCreateThrowing(body, error) ==
    /\ ValidateCreate(body.name, body.description) = ""
    /\ Arrive(Request("POST", <<>>, body))
    /\ RepoThrows("create", 0, DataOf(body.name, body.description), error)
    /\ Catch

\* ItemsController.update, repository.update throwing
HandleUpdateThrowing(seg, body, error) ==
    LET id == parseInt(seg) IN
    /\ ~isNaN(id)
    /\ ValidateUpdate(body.name, body.description) = ""
    /\ Arrive(Request("PUT", seg, body))
    /\ RepoThrows("update", id.n, DataOf(body.name, body.description), error)
    /\ Catch

\* ItemsController.delete, repository.remove throwing
HandleDeleteThrowing(seg, error) ==
    LET id == parseInt(seg) IN
    /\ ~isNaN(id)
    /\ Arrive(Request("DELETE", seg, NoBody))
    /\ RepoThrows("remove", id.n, EmptyData, error)
    /\ Catch

GetAllFailure == \E error \in Errors : HandleGetAllThrowing(error)
GetByIdFailure ==
    \E seg \in Segments, error \in Errors : HandleGetByIdThrowing(seg, error)
CreateFailure ==
    \E body \in Bodies, error \in Errors : HandleCreateThrowing(body, error)
UpdateFailure ==
    \E seg \in Segments, body \in Bodies, error \in Errors :
        HandleUpdateThrowing(seg, body, error)
DeleteFailure ==
    \E seg \in Segments, error \in Errors : HandleDeleteThrowing(seg, error)

NextFaulty ==
    /\ steps < MaxFaultyRequests
    /\ \/ HttpTick
       \/ GetAllRequest
       \/ GetByIdRequest
       \/ CreateRequest
       \/ UpdateRequest
       \/ DeleteRequest
       \/ GetAllFailure
       \/ GetByIdFailure
       \/ CreateFailure
       \/ UpdateFailure
       \/ DeleteFailure
    /\ UNCHANGED appVars

SpecFaulty == Init /\ [][NextFaulty]_vars

(***************************************************************************)
(* Further properties of the controller, checked under SpecHttp.           *)
(***************************************************************************)
\* some item of seq has this id
HasId(seq, id) == \E i \in 1..Len(seq) : seq[i].id = id

\* the item of seq that has this id
ItemWithId(seq, id) == seq[CHOOSE i \in 1..Len(seq) : seq[i].id = id]

\* the request's :id parses to a number
ParsesId(r) == r.seg # <<>> /\ ~isNaN(parseInt(r.seg))

\* C11: a request that passes id parsing and validation and, for get, update
\* and delete, targets an existing item is answered 200 with the item array
\* (list), 200 with the item (get), 201 with the new item (create), 200 with
\* the item as now stored (update), 200 with the deletion message (delete).
C11_SuccessMapping ==
    [][Operated =>
        LET r == req'
            id == parseInt(r.seg).n
        IN
        /\ (r.method = "GET" /\ r.seg = <<>>) =>
              res' = Response(200, "list", "", "", items)
        /\ (r.method = "GET" /\ ParsesId(r) /\ HasId(items, id)) =>
              res' = Response(200, "item", "", "", <<ItemWithId(items, id)>>)
        /\ (r.method = "POST" /\ ValidateCreate(r.body.name, r.body.description) = "") =>
              /\ Len(items') = Len(items) + 1
              /\ res' = Response(201, "item", "", "", <<items'[Len(items')]>>)
        /\ (/\ r.method = "PUT" /\ ParsesId(r) /\ HasId(items, id)
            /\ ValidateUpdate(r.body.name, r.body.description) = "") =>
              res' = Response(200, "item", "", "", <<ItemWithId(items', id)>>)
        /\ (r.method = "DELETE" /\ ParsesId(r) /\ HasId(items, id)) =>
              res' = Response(200, "message", "", "Item deleted successfully", <<>>)
    ]_vars

\* C11 witness: a POST has been answered 201 with the item now last in the
\* store, after an earlier DELETE succeeded.
C11_Witness ==
    /\ req.method = "POST"
    /\ res.status = 201
    /\ res.data = <<items[Len(items)]>>
    /\ removedEver # {}

\* C12 as stated: after a DELETE answered 200, every later GET, PUT or DELETE
\* of that id is answered 404 and the repository finds nothing.
C12_DeletedIdAlways404 ==
    [][(/\ Operated
        /\ req'.method \in {"GET", "PUT", "DELETE"}
        /\ ParsesId(req')
        /\ parseInt(req'.seg).n \in removedEver) =>
          res'.status = 404]_vars

\* C12 amended: after a DELETE answered 200, every later GET or DELETE of
\* that id, and every later PUT of that id whose body passes validation, is
\* answered 404, the repository's getById / update / remove finding nothing,
\* whatever requests were handled in between.
C12_DeletedIdNotFound ==
    [][(/\ Operated
        /\ req'.method \in {"GET", "PUT", "DELETE"}
        /\ ParsesId(req')
        /\ parseInt(req'.seg).n \in removedEver
        /\ req'.method = "PUT" =>
              ValidateUpdate(req'.body.name, req'.body.description) = "") =>
          /\ res'.status = 404
          /\ call'.op \in {"getById", "update", "remove"}
          /\ ~call'.ok
          /\ call'.item = <<>>]_vars

\* C12 witness: a second DELETE of a deleted id has been answered 404 after a
\* POST in between.
C12_Witness ==
    /\ req.method = "DELETE"
    /\ call.op = "remove" /\ ~call.ok
    /\ call.id \in removedEver
    /\ res.status = 404
    /\ nextId > InitialNextId

\* C14: a request answered 400 leaves the item sequence and the next-id
\* counter as they were before it.
C14_RejectedRequestKeepsStore ==
    [][(Operated /\ res'.status = 400) =>
          /\ items' = items
          /\ nextId' = nextId]_vars

\* C14 witness: a POST has been answered 400 in a store that already holds a
\* created item.
C14_Witness ==
    /\ req.method = "POST"
    /\ res.status = 400
    /\ nextId > InitialNextId
    /\ Len(items) > 3

(***************************************************************************)
(* Further properties of the repository, checked under Spec.               *)
(***************************************************************************)
\* the three seed items, in order, never updated
SeedItemsOnly ==
    /\ Len(items) = 3
    /\ \A i \in 1..3 : items[i].id = i /\ items[i].updatedAt = <<>>
    /\ items[1].name = Str("Item 1") /\ items[1].description = Str("First item")
    /\ items[2].name = Str("Item 2") /\ items[2].description = Str("Second item")
    /\ items[3].name = Str("Item 3") /\ items[3].description = Str("Third item")

\* C13: after any sequence of calls, reset() leaves exactly the three seed
\* items 1, 2, 3 with their seed names and descriptions and no updatedAt,
\* in that order, and the create that follows a reset returns id 4.
C13_ResetRestoresSeed ==
    [][/\ (Operated /\ call'.op = "reset") => (SeedItemsOnly' /\ nextId' = 4)
       /\ (Operated /\ call.op = "reset" /\ call'.op = "create") =>
              call'.item[1].id = 4]_vars

\* C13 witness: a create has returned 4 although 4 had been created and
\* removed before, that is a create right after a reset that followed
\* mutations.
C13_Witness ==
    /\ call.op = "create"
    /\ call.item[1].id = 4
    /\ 4 \in removedEver
    /\ removedSinceReset = {}

\* ids handed out by create since construction or the last reset and not
\* removed since
CreatedAndKept == {id \in InitialNextId..(nextId - 1) : id \notin removedSinceReset}

\* C15: getById of the id a create has just returned gives an item with the
\* name given to create and the description given to it, '' when none was
\* given; and getById of any created id finds the item as long as it has not
\* been removed and the store has not been reset.
C15_CreateReadRoundTrip ==
    [][/\ (/\ Operated
           /\ call.op = "create"
           /\ call'.op = "getById"
           /\ call'.id = call.item[1].id) =>
              /\ call'.ok
              /\ call'.item[1].name = call.data.name[1]
              /\ call'.item[1].description =
                    IF call.data.description = <<>> THEN Str("")
                    ELSE call.data.description[1]
       /\ (Operated /\ call'.op = "getById" /\ call'.id \in CreatedAndKept) =>
              /\ call'.ok
              /\ call'.item[1].id = call'.id
       /\ \A id \in CreatedAndKept' : HasId(items', id)]_vars

\* C15 witness: getById(4) has found the item created without a description,
\* its description being ''.
C15_Witness ==
    /\ call.op = "getById" /\ call.id = 4 /\ call.ok
    /\ call.item[1].name = Str("X")
    /\ call.item[1].description = Str("")
    /\ lastCreated = 4

\* the items are in the order of their ids: seeds 1, 2, 3 first, then the
\* created items in creation order
InsertionOrder ==
    \A i, j \in 1..Len(items) : i < j => items[i].id < items[j].id

\* C16: the item sequence getAll returns is always in insertion order;
\* create appends, update keeps every item at its position, remove keeps
\* the other items in their relative order.
C16_InsertionOrderKept ==
    [][/\ InsertionOrder'
       /\ (Operated /\ call'.op = "create") =>
              items' = Append(items, call'.item[1])
       /\ (Operated /\ call'.op = "update") =>
              /\ Len(items') = Len(items)
              /\ \A i \in 1..Len(items) : items'[i].id = items[i].id
       /\ (Operated /\ call'.op = "remove") =>
              LET Kept(it) == it.id # call'.id IN
              \A i \in 1..Len(items') :
                  items'[i].id = SelectSeq(items, Kept)[i].id
       /\ (Operated /\ call'.op \in {"getAll", "getById"}) => items' = items]_vars

\* C16 witness: the first seed item has been removed from a store that holds
\* a created item.
C16_Witness ==
    /\ call.op = "remove" /\ call.ok /\ call.id = 1
    /\ Len(items) = 3
    /\ items[1].id = 2 /\ items[3].id = 4

\* C17: an item has an updatedAt exactly when an update on it has succeeded
\* since it was created (a seed item: since the last reset); a successful
\* update sets it to the current time, also with the payload {}; create,
\* remove, the reads and an update that finds nothing set it on no item.
C17_UpdatedAtLifecycle ==
    [][/\ \A i \in 1..Len(items') :
              items'[i].updatedAt # <<>> <=> items'[i].id \in updatedSince'
       /\ (Operated /\ call'.op = "update" /\ call'.ok) =>
              ItemWithId(items', call'.id).updatedAt = <<now>>
       /\ (Operated /\ ~(call'.op = "update" /\ call'.ok)) =>
              \A i \in 1..Len(items') :
                  items'[i].updatedAt # <<>> =>
                      /\ HasId(items, items'[i].id)
                      /\ ItemWithId(items, items'[i].id).updatedAt
                            = items'[i].updatedAt]_vars

\* C17 witness: an update with the payload {} has stamped a seed item with
\* a time later than its creation, in a store that also holds a created item
\* without updatedAt.
C17_Witness ==
    /\ call.op = "update" /\ call.ok /\ call.data = EmptyData
    /\ call.item[1].updatedAt = <<now>>
    /\ now > call.item[1].createdAt
    /\ HasId(items, 4) /\ ItemWithId(items, 4).updatedAt = <<>>

\* C18: create raises the counter by one; getAll, getById, update and remove
\* leave it as it is; reset sets it to 4 and is the only call that lowers it.
C18_CounterOnlyIncreases ==
    [][Operated =>
          /\ call'.op = "create" => nextId' = nextId + 1
          /\ call'.op \in {"getAll", "getById", "update", "remove"} =>
                 nextId' = nextId
          /\ call'.op = "reset" => nextId' = 4
          /\ nextId' < nextId => call'.op = "reset"]_vars

\* C18 witness: a reset has taken the counter back to 4 after a create and a
\* successful remove.
C18_Witness ==
    /\ call.op = "reset"
    /\ nextId = 4
    /\ \E id \in removedEver : id >= 4

(***************************************************************************)
(* Properties of the handlers over a repository that may throw, checked    *)
(* under SpecFaulty.                                                       *)
(***************************************************************************)
\* C19: whenever the repository throws while an item handler runs, the
\* handler answers 500 with the body {error: 'Internal server error',
\* message: the failure's message}, nothing is stored, and the request that
\* follows a failed one is served by its handler as usual.
C19_StoreFailureAnswered500 ==
    [][/\ (Operated /\ thrown' # "") =>
              /\ res' = Response(500, "error", "Internal server error", thrown', <<>>)
              /\ res'.message \in Errors
              /\ items' = items
              /\ nextId' = nextId
       /\ (Operated /\ thrown # "" /\ thrown' = "") =>
              /\ res'.status \in {200, 201, 400, 404}
              /\ (req'.method = "GET" /\ req'.seg = <<>>) => res' = okList(items)
       /\ (thrown # "" /\ steps < MaxFaultyRequests) => ENABLED GetAllRequest]_vars

\* C19 witness: repository.update has thrown during a PUT with a valid id and
\* body, and the response is the 500.
C19_Witness ==
    /\ req.method = "PUT"
    /\ call.op = "update"
    /\ thrown = "Database error"
    /\ res.status = 500
    /\ res.message = "Database error"

\* C20: every handled request, whatever its path id, its body and the
\* repository's behaviour, ends with one recorded response, whose status is
\* one of 200, 201, 400, 404, 500.
C20_EveryRequestAnswered ==
    [][Operated =>
          /\ req'.method \in {"GET", "POST", "PUT", "DELETE"}
          /\ res'.kind # "none"
          /\ res'.status \in {200, 201, 400, 404, 500}
          /\ res'.status = 500 <=> thrown' # ""]_vars

\* C20 witness: a second request, a POST during which repository.create has
\* thrown, has been answered.
C20_Witness ==
    /\ steps > 1
    /\ req.method = "POST"
    /\ call.op = "create"
    /\ res.status = 500

(***************************************************************************)
(* Behaviour of the item endpoints against the testing guide and the       *)
(* failure table, checked under SpecHttp.                                  *)
(***************************************************************************)
\* C24: a DELETE of an existing item is answered 204 No Content, and a GET
\* of that id that follows it is answered 404.
C24_DeleteAnswers204 ==
    [][/\ (Operated /\ req'.method = "DELETE" /\ call'.op = "remove" /\ call'.ok) =>
              res'.status = 204
       /\ (/\ Operated
           /\ req.method = "DELETE" /\ call.op = "remove" /\ call.ok
           /\ req'.method = "GET" /\ req'.seg = req.seg) =>
              res'.status = 404]_vars

\* C25: a PUT whose id segment is not a base-10 integer is answered 400
\* 'Invalid ID format' whatever its body; a PUT whose id is well formed and
\* matches no item, and whose body has a non-text name or description, is
\* answered 400 by the validation, not 404.
C25_PutFailurePrecedence ==
    req.method = "PUT" =>
        /\ ~IsBase10Integer(req.seg) =>
              /\ res.status = 400
              /\ res.error = "Invalid ID format"
        /\ (/\ IsBase10Integer(req.seg)
            /\ ~HasId(items, parseInt(req.seg).n)
            /\ PresentNonText(req.body.name) \/ PresentNonText(req.body.description)) =>
              /\ res.status = 400
              /\ res.error # "Invalid ID format"

\* C30: getAll and getById, and the GET requests built on them, leave the
\* item sequence, every item's fields and the next-id counter as they were,
\* whether the answer is 200, 400 or 404.
C30_ReadsChangeNothing ==
    [][(Operated /\ (req'.method = "GET" \/ call'.op \in {"getAll", "getById"})) =>
          /\ items' = items
          /\ nextId' = nextId
          /\ res'.status \in {200, 400, 404}]_vars

\* C30 witness: a GET of an id that no item has was answered 404 in a store
\* that holds a created item.
C30_Witness ==
    /\ req.method = "GET"
    /\ call.op = "getById" /\ ~call.ok
    /\ res.status = 404
    /\ Len(items) > 3

(***************************************************************************)
(* Frame and accounting properties of the repository, checked under Spec.  *)
(***************************************************************************)
\* C26: a successful remove(id) deletes exactly the item with that id: the
\* other items are left with all their fields, in their order, and the
\* next-id counter is unchanged.
C26_RemoveFrame ==
    [][(Operated /\ call'.op = "remove" /\ call'.ok) =>
          LET Others(it) == it.id # call'.id IN
          /\ HasId(items, call'.id)
          /\ ~HasId(items', call'.id)
          /\ Len(items') = Len(items) - 1
          /\ items' = SelectSeq(items, Others)
          /\ nextId' = nextId]_vars

\* C26 witness: item 1 has been removed from a store that holds a created
\* item carrying an updatedAt.
C26_Witness ==
    /\ call.op = "remove" /\ call.ok /\ call.id = 1
    /\ HasId(items, 4)
    /\ ItemWithId(items, 4).updatedAt # <<>>

\* C27: the number of items is 3 plus the creates minus the successful
\* removes since the last reset (or the start): the counter has advanced by
\* one per create and every successful remove has put one more id among the
\* removed ones; create adds one item, a successful remove takes one away,
\* reset goes back to 3, and update, the reads and a remove that finds
\* nothing leave the count alone.
C27_ItemCountAccounting ==
    [][/\ Len(items') = 3 + (nextId' - InitialNextId) - Cardinality(removedSinceReset')
       /\ Operated =>
             /\ call'.op = "create" => Len(items') = Len(items) + 1
             /\ (call'.op = "remove" /\ call'.ok) =>
                    /\ Len(items') = Len(items) - 1
                    /\ Cardinality(removedSinceReset') =
                          Cardinality(removedSinceReset) + 1
             /\ (call'.op = "remove" /\ ~call'.ok) =>
                    /\ Len(items') = Len(items)
                    /\ removedSinceReset' = removedSinceReset
             /\ call'.op \in {"getAll", "getById", "update"} =>
                    Len(items') = Len(items)
             /\ call'.op = "reset" => Len(items') = 3]_vars

\* C27 witness: a remove has found nothing in a store that two creates and
\* one successful remove have left with four items.
C27_Witness ==
    /\ call.op = "remove" /\ ~call.ok
    /\ nextId = InitialNextId + 2
    /\ Cardinality(removedSinceReset) = 1
    /\ Len(items) = 4

\* C29: the next-id counter is at least 4 and greater than the id of every
\* item in the store, so the next create hands out an id no stored item has.
C29_CounterAboveStoredIds ==
    /\ nextId >= 4
    /\ \A i \in 1..Len(items) : items[i].id < nextId
    /\ ~HasId(items, nextId)

\* C29 witness: a create has returned 5 while id 4, handed out before, is
\* no longer in the store.
C29_Witness ==
    /\ call.op = "create"
    /\ call.item[1].id = 5
    /\ ~HasId(items, 4)
    /\ nextId = 6

(***************************************************************************)
(* HealthController: GET /health, GET /api/info and GET /.                 *)
(***************************************************************************)
\* ConfigService: process.env.APP_VERSION || '1.0.0'
AppVersion == "1.0.0"

\* ConfigService: process.env.NODE_ENV || 'development', read once when the
\* configuration is built
ConfigNodeEnv == "development"

\* process.version and process.platform: text values fixed for the process
ProcessVersion == "v25.0.0"
ProcessPlatform == "linux"

\* the body of GET /health
HealthBody(timestamp, requestNumber) ==
    [status |-> "healthy", timestamp |-> timestamp, version |-> AppVersion,
     requestNumber |-> requestNumber]

\* the body of GET /api/info
InfoBody(seconds) ==
    [app |-> "Items Management Service", version |-> AppVersion,
     node_version |-> ProcessVersion, platform |-> ProcessPlatform,
     uptime |-> seconds, environment |-> ConfigNodeEnv]

\* the body of GET /
RootBody ==
    [message |-> "Welcome to Items Management Service!", version |-> AppVersion,
     environment |-> ConfigNodeEnv]

\* HealthController handles one more request; it has no repository
HealthArrive(path) ==
    /\ steps < MaxHealthRequests
    /\ steps' = steps + 1
    /\ req' = Request("GET", <<>>, NoBody)
    /\ thrown' = ""
    /\ UNCHANGED now
    /\ NoRepoCall
    /\ served' = Append(served, path)

\* a health handler that counted its own requests as well
HandleHealthCounting ==
    /\ HealthArrive("/health")
    /\ requestCount' = requestCount + 1
    /\ res' = Response(200, "health", "", "", <<HealthBody(now, requestCount')>>)
    /\ UNCHANGED uptime

\* HealthController.health
HandleHealth ==
    /\ HealthArrive("/health")
    /\ res' = Response(200, "health", "", "", <<HealthBody(now, requestCount)>>)
    /\ UNCHANGED <<requestCount, uptime>>

\* HealthController.info; process.uptime() reads the time since the process
\* started, which is positive and has grown since the last reading
HandleInfo ==
    /\ HealthArrive("/api/info")
    /\ requestCount' = requestCount + 1
    /\ \E elapsed \in 1..MaxElapsed : uptime' = uptime + elapsed
    /\ res' = Response(200, "info", "", "", <<InfoBody(uptime')>>)

\* HealthController.root
HandleRoot ==
    /\ HealthArrive("/")
    /\ res' = Response(200, "root", "", "", <<RootBody>>)
    /\ UNCHANGED <<requestCount, uptime>>

HealthRequest == HandleHealth /\ UNCHANGED <<exchanges, completed, recorded, inflight>>
InfoRequest == HandleInfo /\ UNCHANGED <<exchanges, completed, recorded, inflight>>
RootRequest == HandleRoot /\ UNCHANGED <<exchanges, completed, recorded, inflight>>
HealthTick == Tick(MaxHealthRequests) /\ UNCHANGED appVars

NextHealth ==
    \/ HealthTick
    \/ HealthRequest
    \/ InfoRequest
    \/ RootRequest

SpecHealth == Init /\ [][NextHealth]_vars

\* the number of GET /api/info requests among the handled ones
InfoHandled(log) == Cardinality({i \in 1..Len(log) : log[i] = "/api/info"})

\* C28: the requestNumber that GET /health reports is the number of GET
\* /api/info requests the controller has handled so far; GET /health and
\* GET / leave the count as it is, so two /health calls in a row report the
\* same requestNumber.
C28_RequestNumberCountsInfo ==
    [][Operated =>
          /\ requestCount' = InfoHandled(served')
          /\ res'.kind = "health" =>
                 /\ res'.data[1].requestNumber = InfoHandled(served)
                 /\ requestCount' = requestCount
          /\ res'.kind = "root" => requestCount' = requestCount
          /\ res'.kind = "info" => requestCount' = requestCount + 1
          /\ (res.kind = "health" /\ res'.kind = "health") =>
                 res'.data[1].requestNumber = res.data[1].requestNumber]_vars

\* C28 witness: after one GET /api/info, the second of two GET /health in a
\* row has reported requestNumber 1.
C28_Witness ==
    /\ served = <<"/api/info", "/health", "/health">>
    /\ res.kind = "health"
    /\ res.data[1].requestNumber = 1

(***************************************************************************)
(* App: express.json(), MetricsMiddleware, the router and                  *)
(* ErrorHandlerMiddleware, in the order App registers them.  A request     *)
(* runs through them until the response is sent; the response's 'finish'   *)
(* event comes later, as a step of its own, and other requests are handled *)
(* in between.  GET /metrics awaits the registry: its response is sent in  *)
(* a later step than the one that received the request.                    *)
(***************************************************************************)
\* the values of process.env.NODE_ENV that ErrorHandlerMiddleware may read
Environments == {"development", "production"}

\* the message of the error express.json() raises on a body that is not JSON
BodyParseErrors == {"Unexpected end of JSON input"}

\* req.path of the item routes and of the other routes
ItemsPath(seg) == [base |-> "/api/items", seg |-> seg]
PlainPath(base) == [base |-> base, seg |-> <<>>]

\* MetricsService.recordRequest(method, endpoint, status): one more count
\* under these labels
recordRequest(method, endpoint, status) ==
    recorded' = Append(recorded, [method |-> method, path |-> endpoint, status |-> status])

\* the counter http_requests_total as the registry reports it: the count of
\* each label set
Counters(log) ==
    [labels \in {log[i] : i \in 1..Len(log)} |->
        Cardinality({i \in 1..Len(log) : log[i] = labels})]

\* ErrorHandlerMiddleware.handle: res.status(500).json({error, message}),
\* the message only in development
ErrorHandlerMiddlewareHandle(err, env) ==
    res' = Response(500, "error", "Something went wrong!",
                    IF env = "development" THEN err ELSE "", <<>>)

\* a request received by App: its handler is awaiting or its response is
\* sent; listener tells whether MetricsMiddleware has registered its
\* 'finish' listener on the response; seen is what the registry held when
\* an awaiting handler asked for it
Exchange(stage, listener, method, path, status, seen) ==
    [stage |-> stage, listener |-> listener, method |-> method, path |-> path,
     status |-> status, seen |-> seen]

\* the sequence without its element at index
Without(seq, index) == SubSeq(seq, 1, index - 1) \o SubSeq(seq, index + 1, Len(seq))

\* the response is sent and has not finished
Responded(method, path, listener) ==
    exchanges' = Append(exchanges,
                        Exchange("responded", listener, method, path, res'.status, <<>>))

\* express.json() has parsed the body, MetricsMiddleware.handle has
\* registered its 'finish' listener and called next(): the router runs the
\* handler (written before Through in the actions, the listener being told
\* the status the handler has set)
Through(method, path) ==
    /\ steps < MaxAppRequests
    /\ Responded(method, path, TRUE)
    /\ UNCHANGED <<completed, recorded, inflight>>

\* express.json() fails on the body and passes its error on: the remaining
\* middleware and the router are skipped, ErrorHandlerMiddleware answers
MalformedBody(method, seg, err, env) ==
    /\ steps < MaxAppRequests
    /\ Receive(Request(method, seg, NoBody))
    /\ NoRepoCall
    /\ ErrorHandlerMiddlewareHandle(err, env)
    /\ Responded(method, ItemsPath(seg), FALSE)
    /\ UNCHANGED <<requestCount, served, uptime, completed, recorded, inflight>>

\* no route matches: Express answers 404 itself, after MetricsMiddleware
Unmatched(base) ==
    /\ Receive(Request("GET", <<>>, NoBody))
    /\ NoRepoCall
    /\ res' = Response(404, "html", "", "Cannot GET " \o base, <<>>)
    /\ Through("GET", PlainPath(base))
    /\ UNCHANGED <<requestCount, served, uptime>>

\* MetricsController.getMetrics up to its await: the request has passed
\* MetricsMiddleware, the registry is asked, no response is sent yet
MetricsCall ==
    /\ steps < MaxAppRequests
    /\ Receive(Request("GET", <<>>, NoBody))
    /\ NoRepoCall
    /\ exchanges' = Append(exchanges,
                           Exchange("awaiting", TRUE, "GET", PlainPath("/metrics"), 0,
                                    <<Counters(recorded)>>))
    /\ UNCHANGED <<res, requestCount, served, uptime, completed, recorded, inflight>>

\* MetricsController.getMetrics after its await: the metrics are sent, as
\* the registry held them when asked or as it holds them now
MetricsResume(index) ==
    /\ exchanges[index].stage = "awaiting"
    /\ \E metrics \in {exchanges[index].seen[1], Counters(recorded)} :
           res' = Response(200, "metrics", "", "", <<metrics>>)
    /\ exchanges' = [exchanges EXCEPT ![index].stage = "responded",
                                      ![index].status = res'.status,
                                      ![index].seen = <<>>]
    /\ UNCHANGED <<items, nextId, now, call, req, lastCreated, removedEver,
                   removedSinceReset, updatedSince, thrown, steps>>
    /\ UNCHANGED <<requestCount, served, uptime, completed, recorded, inflight>>

\* MetricsController.getMetrics, the registry failing: the catch answers
\* with serverError
MetricsFailure(index, error) ==
    /\ exchanges[index].stage = "awaiting"
    /\ res' = serverError(error)
    /\ exchanges' = [exchanges EXCEPT ![index].stage = "responded",
                                      ![index].status = res'.status,
                                      ![index].seen = <<>>]
    /\ UNCHANGED <<items, nextId, now, call, req, lastCreated, removedEver,
                   removedSinceReset, updatedSince, thrown, steps>>
    /\ UNCHANGED <<requestCount, served, uptime, completed, recorded, inflight>>

\* the 'finish' event of a response: the listeners registered on it run
Finish(index) ==
    LET exchange == exchanges[index] IN
    /\ exchange.stage = "responded"
    /\ completed' = Append(completed, [method |-> exchange.method,
                                       path |-> exchange.path,
                                       status |-> exchange.status])
    /\ IF exchange.listener
       THEN recordRequest(exchange.method, exchange.path, exchange.status)
       ELSE UNCHANGED recorded
    /\ exchanges' = Without(exchanges, index)
    /\ UNCHANGED storeVars
    /\ UNCHANGED <<requestCount, served, uptime, inflight>>

\* the requests sent to App
AppSegments == { <<"1">>, <<"9">>, <<"a", "b", "c">> }
AppBodies == { [name |-> Str("X"), description |-> Undef],
               [name |-> Num(7), description |-> Str("Z")] }

AppGetAll ==
    /\ HandleGetAll
    /\ Through("GET", ItemsPath(<<>>))
    /\ UNCHANGED <<requestCount, served, uptime>>
AppGetById ==
    \E seg \in AppSegments :
        /\ HandleGetById(seg)
        /\ Through("GET", ItemsPath(seg))
        /\ UNCHANGED <<requestCount, served, uptime>>
AppCreate ==
    \E body \in AppBodies :
        /\ HandleCreate(body)
        /\ Through("POST", ItemsPath(<<>>))
        /\ UNCHANGED <<requestCount, served, uptime>>
AppUpdate ==
    \E seg \in AppSegments, body \in AppBodies :
        /\ HandleUpdate(seg, body)
        /\ Through("PUT", ItemsPath(seg))
        /\ UNCHANGED <<requestCount, served, uptime>>
AppDelete ==
    \E seg \in AppSegments :
        /\ HandleDelete(seg)
        /\ Through("DELETE", ItemsPath(seg))
        /\ UNCHANGED <<requestCount, served, uptime>>
AppStoreFailure ==
    \E error \in Errors :
        /\ \/ HandleGetAllThrowing(error) /\ Through("GET", ItemsPath(<<>>))
           \/ \E seg \in AppSegments :
                  HandleDeleteThrowing(seg, error) /\ Through("DELETE", ItemsPath(seg))
        /\ UNCHANGED <<requestCount, served, uptime>>
AppHealth == HandleHealth /\ Through("GET", PlainPath("/health"))
AppInfo == HandleInfo /\ Through("GET", PlainPath("/api/info"))
AppRoot == HandleRoot /\ Through("GET", PlainPath("/"))
AppMetrics == MetricsCall
AppMetricsSent ==
    \E index \in 1..Len(exchanges) :
        \/ MetricsResume(index)
        \/ \E error \in Errors : MetricsFailure(index, error)
AppUnmatched == Unmatched("/nope")
AppMalformedBody ==
    \E err \in BodyParseErrors, env \in Environments :
        \/ MalformedBody("POST", <<>>, err, env)
        \/ \E seg \in AppSegments : MalformedBody("PUT", seg, err, env)
AppFinish == \E index \in 1..Len(exchanges) : Finish(index)

NextApp ==
    \/ AppGetAll
    \/ AppGetById
    \/ AppCreate
    \/ AppUpdate
    \/ AppDelete
    \/ AppStoreFailure
    \/ AppHealth
    \/ AppInfo
    \/ AppRoot
    \/ AppMetrics
    \/ AppMetricsSent
    \/ AppUnmatched
    \/ AppMalformedBody
    \/ AppFinish

SpecApp == Init /\ [][NextApp]_vars

\* C21: every error response has a body {error: text} when its status is
\* 400 or 404, and a body {error: 'Internal server error', message: text}
\* when its status is 500, whether a controller or ErrorHandlerMiddleware
\* sent it.
C21_ErrorBodyShape ==
    /\ res.status \in {400, 404} =>
          /\ res.kind = "error"
          /\ res.error # ""
          /\ res.message = ""
          /\ res.data = <<>>
    /\ res.status = 500 =>
          /\ res.kind = "error"
          /\ res.error = "Internal server error"
          /\ res.message # ""
          /\ res.data = <<>>

\* C23: recordRequest has been called exactly once for every request whose
\* response has finished, with the request's method, path and final status,
\* in the order of completion, and for no request whose response has not
\* finished yet.
C23_EveryCompletedRequestRecorded ==
    recorded = completed

(***************************************************************************)
(* Several requests in flight.  The server accepts a request and reads its *)
(* body while other requests are served; once the body is there, the       *)
(* handler - a synchronous function without await - runs from its first    *)
(* statement to its return as one step of the event loop.                  *)
(***************************************************************************)
\* a request in flight: received, its handler not yet run
InFlight(r) == [request |-> r, stage |-> "received", response |-> NoRes]

\* the requests sent while others are in flight
ConcurrentRequests ==
    { Request("GET", <<>>, NoBody),
      Request("GET", <<"4">>, NoBody),
      Request("POST", <<>>, [name |-> Str("X"), description |-> Undef]),
      Request("POST", <<>>, [name |-> Str("X"), description |-> Str("Z")]),
      Request("POST", <<>>, [name |-> Undef, description |-> Undef]),
      Request("PUT", <<"1">>, [name |-> Str("X"), description |-> Undef]),
      Request("PUT", <<"4">>, [name |-> Str("X"), description |-> Str("Z")]),
      Request("DELETE", <<"1">>, NoBody),
      Request("DELETE", <<"4">>, NoBody) }

\* a router whose create wrote back the counter value it had read before
\* another create ran, losing that one's increment
ServeLosingIncrement(r) ==
    IF r.method = "POST"
    THEN /\ Receive(r)
         /\ IF ValidateCreate(r.body.name, r.body.description) # ""
            THEN NoRepoCall /\ res' = fail(ValidateCreate(r.body.name, r.body.description))
            ELSE /\ RepoCreateNoIncrement(DataOf(r.body.name, r.body.description))
                 /\ res' = created(call'.item[1])
    ELSE IF r.method = "GET" /\ r.seg = <<>> THEN HandleGetAll
    ELSE IF r.method = "GET" THEN HandleGetById(r.seg)
    ELSE IF r.method = "PUT" THEN HandleUpdate(r.seg, r.body)
    ELSE HandleDelete(r.seg)

\* the router calls the handler registered for the method and path; the
\* handler runs to its return
Serve(r) ==
    IF r.method = "GET" /\ r.seg = <<>> THEN HandleGetAll
    ELSE IF r.method = "GET" THEN HandleGetById(r.seg)
    ELSE IF r.method = "POST" THEN HandleCreate(r.body)
    ELSE IF r.method = "PUT" THEN HandleUpdate(r.seg, r.body)
    ELSE HandleDelete(r.seg)

\* a request is received; nothing of the store is read or written yet
Accept ==
    /\ Len(inflight) < MaxInFlight
    /\ \E r \in ConcurrentRequests : inflight' = Append(inflight, InFlight(r))
    /\ UNCHANGED storeVars
    /\ UNCHANGED <<requestCount, served, uptime, exchanges, completed, recorded>>

\* the event loop runs App on one of the requests in flight, in any order:
\* express.json() has its body, MetricsMiddleware.handle registers its
\* 'finish' listener on the response and calls next(), the router runs the
\* handler and the response is sent; it has not finished yet
Dispatch ==
    \E slot \in 1..Len(inflight) :
        /\ inflight[slot].stage = "received"
        /\ Serve(inflight[slot].request)
        /\ inflight' = [inflight EXCEPT ![slot].stage = "answered",
                                        ![slot].response = res']
        /\ Responded(inflight[slot].request.method,
                     ItemsPath(inflight[slot].request.seg), TRUE)
        /\ UNCHANGED <<requestCount, served, uptime, completed, recorded>>

\* one of the responses sent finishes, in any order: the listener
\* MetricsMiddleware registered on it records the request
Finished == \E index \in 1..Len(exchanges) : Finish(index)

NextConcurrent ==
    \/ Accept
    \/ Dispatch
    \/ Finished

SpecConcurrent == Init /\ [][NextConcurrent]_vars

\* one request handled by the controller when no other request is in flight
SequentialRequest ==
    \/ GetAllRequest
    \/ GetByIdRequest
    \/ CreateRequest
    \/ UpdateRequest
    \/ DeleteRequest

\* the creates among the requests in flight that have been answered 201
AnsweredCreates(flight) ==
    {slot \in 1..Len(flight) :
        /\ flight[slot].request.method = "POST"
        /\ flight[slot].response.status = 201}

\* a DELETE of this id has been answered 200
DeletedInFlight(flight, id) ==
    \E slot \in 1..Len(flight) :
        /\ flight[slot].request.method = "DELETE"
        /\ flight[slot].response.status = 200
        /\ parseInt(flight[slot].request.seg).n = id

\* C22: with several requests in flight, every change of the store and
\* every response is what one request handled alone, in the order the
\* handlers ran, gives: each handler's parse-validate-store step is one
\* step.  Two creates in flight at once obtain different ids, and both
\* items are in the store unless a DELETE has removed them since.
C22_RequestsSerialise ==
    [][/\ SequentialRequest
       /\ \A s1, s2 \in AnsweredCreates(inflight') :
              s1 # s2 => inflight'[s1].response.data[1].id
                            # inflight'[s2].response.data[1].id
       /\ \A s1 \in AnsweredCreates(inflight') :
              \/ HasId(items', inflight'[s1].response.data[1].id)
              \/ DeletedInFlight(inflight', inflight'[s1].response.data[1].id)]_storeVars

\* C22 witness: two creates were in flight together, the one received
\* second was served first and obtained id 4, the other then obtained id 5,
\* and both items are in the store.
C22_Witness ==
    /\ Len(inflight) >= 2
    /\ inflight[1].request.method = "POST" /\ inflight[1].response.status = 201
    /\ inflight[2].request.method = "POST" /\ inflight[2].response.status = 201
    /\ inflight[2].response.data[1].id = 4
    /\ inflight[1].response.data[1].id = 5
    /\ HasId(items, 4) /\ HasId(items, 5)

====
